---- MODULE Spec2Model ----
(***************************************************************************)
(* NotionCalFeed: the feed server (app/main.py), the Notion client         *)
(* (app/notion_client.py), the ICS generator (app/ics_generator.py) and    *)
(* the view configuration (app/config.py, app/models.py) as a state        *)
(* machine.                                                                *)
(*                                                                         *)
(* Python values are encoded as follows.                                   *)
(*   Optional[int]      <<>> for None, <<n>> for the integer n             *)
(*   str / None         a string; None is the sentinel None, a key that a  *)
(*                      dict does not hold is the sentinel Absent          *)
(*   dict (a filter)    a record tagged py = "dict"; key names the dict's  *)
(*                      first key ("and", "property", "" for {})           *)
(*   list (of filters)  a record tagged py = "list" holding a sequence     *)
(*   datetime           [date, hour, tz]: a day number, an hour, a zone    *)
(*                      name or offset, None for a naive datetime          *)
(*   Optional[str] text [none, s]: s is the sequence of the characters     *)
(*   page property      [type, items, value, num, flag]                    *)
(***************************************************************************)
EXTENDS Integers, Sequences, FiniteSets, TLC

VARIABLES
    config,        \* the calendar view's dict as loaded from config.yaml
    view_config,   \* the ViewConfiguration held by the client
    pc,            \* position of the process / of the request being served
    now,           \* get_calendar_events: now
    filters,       \* get_calendar_events: filters
    results,       \* get_calendar_events: results
    has_more,      \* get_calendar_events: has_more
    start_cursor,  \* get_calendar_events: start_cursor
    inflight,      \* the query_params of the databases.query being awaited
    queries,       \* the query_params sent by this call, in order
    responses,     \* the responses this call received, in order
    events,        \* what get_calendar_events returned
    http,          \* the last answer of the HTTP layer
    calendar,      \* the ICS events of the last answer
    other,         \* a second request served meanwhile: its feed and its locals
    log            \* the counts get_calendar_events has logged in this call

vars == <<config, view_config, pc, now, filters, results, has_more,
          start_cursor, inflight, queries, responses, events, http, calendar, other, log>>

-----------------------------------------------------------------------------
(* Bounds of the model.                                                    *)

MaxPages == 3      \* provider responses per fetch
MaxPageLen == 2    \* records per provider response
MaxBatch == 3      \* records of the one response of the conversion runs
MaxDays == 1       \* query_days_back / query_days_forward range 0..MaxDays
MaxExtras == 2     \* expressions in a list of extra filters

-----------------------------------------------------------------------------
(* Python's None, absent dict keys, and truthiness.                        *)

None == "None"
Absent == "absent"

NoInt == <<>>
Some(n) == <<n>>

NoFilter == [py |-> "None"]
EmptyDict == [py |-> "dict", key |-> ""]
PyList(items) == [py |-> "list", items |-> items]

\* bool(x) of a filter value: None, {} and [] are falsy
Truthy(f) ==
    CASE f.py = "None" -> FALSE
      [] f.py = "dict" -> f.key # ""
      [] f.py = "list" -> Len(f.items) > 0

\* bool(s) of an optional string: None and "" are falsy
TruthyStr(s) == s # None /\ s # ""

-----------------------------------------------------------------------------
(* datetime, timedelta(days=n), isoformat.                                 *)

DateTime(d, h, z) == [date |-> d, hour |-> h, tz |-> z]
NoTime == [date |-> 0 - 1, hour |-> 0 - 1, tz |-> None]
PlusDays(dt, n) == [dt EXCEPT !.date = @ + n]
MinusDays(dt, n) == [dt EXCEPT !.date = @ - n]
isoformat(dt) == [iso |-> dt]

-----------------------------------------------------------------------------
(* Filter expressions (Notion query filters).                              *)

Comparison(prop, op, v) ==
    [py |-> "dict", key |-> "property", property |-> prop, op |-> op, value |-> v]
AndNode(list) == [py |-> "dict", key |-> "and", and |-> list]

\* "and" in filters
HasAndKey(f) == f.py = "dict" /\ f.key = "and"

\* _build_date_filter with the end-only comparison copied from the start-only one
BuildDateFilterCopied(vc, start_date, end_date) ==
    LET date_property == vc.date_property
    IN  IF start_date # NoTime /\ end_date # NoTime
        THEN AndNode(<<Comparison(date_property, "on_or_after", isoformat(start_date)),
                       Comparison(date_property, "on_or_before", isoformat(end_date))>>)
        ELSE IF start_date # NoTime /\ ~(end_date # NoTime)
        THEN Comparison(date_property, "on_or_after", isoformat(start_date))
        ELSE IF end_date # NoTime /\ ~(start_date # NoTime)
        THEN Comparison(date_property, "on_or_after", isoformat(end_date))
        ELSE NoFilter

\* _build_date_filter(start_date, end_date); a datetime is always truthy
_build_date_filter(vc, start_date, end_date) ==
    LET date_property == vc.date_property
    IN  IF start_date # NoTime /\ end_date # NoTime
        THEN AndNode(<<Comparison(date_property, "on_or_after", isoformat(start_date)),
                       Comparison(date_property, "on_or_before", isoformat(end_date))>>)
        ELSE IF start_date # NoTime /\ ~(end_date # NoTime)
        THEN Comparison(date_property, "on_or_after", isoformat(start_date))
        ELSE IF end_date # NoTime /\ ~(start_date # NoTime)
        THEN Comparison(date_property, "on_or_before", isoformat(end_date))
        ELSE NoFilter

\* _normalize_filters(filters): a list is returned as it is, a dict is wrapped
_normalize_filters(f) ==
    IF f.py = "list" THEN f.items
    ELSE IF f.py = "dict" THEN <<f>>
    ELSE <<>>

\* the merge without the "and" in filters branch: the window filter is nested
MergeFiltersNested(vc, window) ==
    IF Truthy(vc.filters)
    THEN LET additional_filters == _normalize_filters(vc.filters)
         IN  IF window = NoFilter
             THEN IF Len(additional_filters) = 1 THEN additional_filters[1]
                  ELSE IF Len(additional_filters) > 1 THEN AndNode(additional_filters)
                  ELSE window
             ELSE AndNode(<<window>> \o additional_filters)
    ELSE window

\* get_calendar_events, "Add any additional filters from configuration"
MergeFilters(vc, window) ==
    IF Truthy(vc.filters)
    THEN LET additional_filters == _normalize_filters(vc.filters)
         IN  IF window = NoFilter
             THEN IF Len(additional_filters) = 1 THEN additional_filters[1]
                  ELSE IF Len(additional_filters) > 1 THEN AndNode(additional_filters)
                  ELSE window
             ELSE IF HasAndKey(window)
                  THEN AndNode(window.and \o additional_filters)
                  ELSE AndNode(<<window>> \o additional_filters)
    ELSE window

\* the start of the window with "if query_days_back:" for "is not None"
StartDateIfTruthy(vc, t) ==
    IF vc.query_days_back # NoInt /\ vc.query_days_back[1] # 0
    THEN MinusDays(t, vc.query_days_back[1])
    ELSE NoTime

\* get_calendar_events, "Calculate date range for query"
StartDate(vc, t) ==
    IF vc.query_days_back # NoInt THEN MinusDays(t, vc.query_days_back[1]) ELSE NoTime
EndDate(vc, t) ==
    IF vc.query_days_forward # NoInt THEN PlusDays(t, vc.query_days_forward[1]) ELSE NoTime

\* get_calendar_events, "Build query filters": the window filter
WindowFilter(vc, t) == _build_date_filter(vc, StartDate(vc, t), EndDate(vc, t))

\* get_calendar_events up to the query loop: the filter of this call
BuildFilters(vc, t) ==
    MergeFilters(vc, _build_date_filter(vc, StartDate(vc, t), EndDate(vc, t)))

\* the merge extending the list it was handed (additional_filters, which is
\* the view's own list when the extra filter is a list) or the and-node it
\* took from the view, in place
ExtraAfterMergeInPlace(vc, window) ==
    IF ~Truthy(vc.filters) \/ window = NoFilter THEN vc.filters
    ELSE IF vc.filters.py = "list"
    THEN PyList(vc.filters.items \o (IF HasAndKey(window) THEN window.and ELSE <<window>>))
    ELSE IF HasAndKey(vc.filters)
    THEN AndNode(vc.filters.and \o (IF HasAndKey(window) THEN window.and ELSE <<window>>))
    ELSE vc.filters

\* view_config.filters after "Add any additional filters from
\* configuration": extend is called on the list of the window filter, which
\* _build_date_filter has just made, and the other branches build new dicts
\* and lists or only take a reference, so the view's filter is what it was
ExtraAfterMerge(vc, window) == vc.filters

\* the query_params of one pass of the loop
QueryParams(vc, f, cursor) ==
    [database_id |-> vc.database_id,
     page_size |-> 100,
     filter |-> IF Truthy(f) THEN f ELSE [py |-> Absent],
     start_cursor |-> IF TruthyStr(cursor) THEN cursor ELSE Absent]

-----------------------------------------------------------------------------
(* Text and page properties.                                               *)

IdChars == <<"0", "1", "2", "3", "4", "5", "6", "7",
             "8", "9", "a", "b", "c", "d", "e", "f">>
\* the decimal digit d as a character
DecimalDigit(d) == IdChars[d + 1]

\* Optional[str]: a str is the sequence of its characters
Text(chars) == [none |-> FALSE, s |-> chars]
NoText == [none |-> TRUE, s |-> <<>>]
\* bool(x) of an Optional[str]
TruthyText(t) == ~t.none /\ t.s # <<>>

UntitledEvent ==
    Text(<<"U", "n", "t", "i", "t", "l", "e", "d", " ", "E", "v", "e", "n", "t">>)

\* the parts put together with the separator left out
RECURSIVE JoinNoSeparator(_, _)
JoinNoSeparator(parts, sep) ==
    IF parts = <<>> THEN <<>> ELSE parts[1] \o JoinNoSeparator(Tail(parts), sep)

\* "".join(parts) and ", ".join(parts)
RECURSIVE Join(_, _)
Join(parts, sep) ==
    IF parts = <<>> THEN <<>>
    ELSE IF Len(parts) = 1 THEN parts[1]
    ELSE parts[1] \o sep \o Join(Tail(parts), sep)

\* str(n) of an int
RECURSIVE DecimalDigits(_)
DecimalDigits(n) ==
    IF n < 10 THEN <<DecimalDigit(n)>> ELSE DecimalDigits(n \div 10) \o <<DecimalDigit(n % 10)>>
DecimalString(n) == IF n < 0 THEN <<"-">> \o DecimalDigits(0 - n) ELSE DecimalDigits(n)

\* one element of a title / rich_text / multi_select array: has_text is FALSE
\* for an element without the key that is read ("plain_text", "name")
Run(chars) == [has_text |-> TRUE, text |-> chars]
BrokenRun == [has_text |-> FALSE, text |-> <<>>]

\* a property value of a page: its declared type and, by type, the array
\* (items), the string or select name (value), the number (num), the
\* checkbox (flag); type "absent" stands for a name the page does not have
Prop(type, items, value, num, flag) ==
    [type |-> type, items |-> items, value |-> value, num |-> num, flag |-> flag]
AbsentProp == Prop("absent", <<>>, NoText, <<>>, <<>>)
ArrayProp(type, items) == Prop(type, items, NoText, <<>>, <<>>)
ValueProp(type, value) == Prop(type, <<>>, value, <<>>, <<>>)
NumberProp(num) == Prop("number", <<>>, NoText, num, <<>>)
CheckboxProp(flag) == Prop("checkbox", <<>>, NoText, <<>>, flag)

\* properties[property_name] for the names a view can be configured with
Properties(name, notes, where, link) ==
    [Name |-> name, Notes |-> notes, Where |-> where, Link |-> link]
Lookup(properties, property_name) ==
    CASE property_name = "Name" -> properties.Name
      [] property_name = "Notes" -> properties.Notes
      [] property_name = "Where" -> properties.Where
      [] property_name = "Link" -> properties.Link
      [] OTHER -> AbsentProp

ItemTexts(items) == [i \in 1..Len(items) |-> items[i].text]
AllReadable(items) == \A i \in 1..Len(items) : items[i].has_text

\* an exception on its way out of an extraction
RaisedText == [none |-> TRUE, s |-> <<"KeyError">>]

\* _extract_property_text up to its except: the value returned, or the
\* exception of the try block
TryExtract(properties, property_name, default) ==
    IF property_name = None \/ property_name = ""
          \/ Lookup(properties, property_name).type = "absent"
    THEN default
    ELSE LET prop == Lookup(properties, property_name)
             prop_type == prop.type
         IN  CASE prop_type \in {"title", "rich_text"} ->
                    IF prop.items = <<>> THEN default
                    ELSE IF ~AllReadable(prop.items) THEN RaisedText  \* KeyError
                    ELSE Text(Join(ItemTexts(prop.items), <<>>))
               [] prop_type = "select" ->
                    IF prop.value.none THEN default ELSE prop.value
               [] prop_type = "multi_select" ->
                    IF prop.items = <<>> THEN default
                    ELSE IF ~AllReadable(prop.items) THEN RaisedText  \* KeyError
                    ELSE Text(Join(ItemTexts(prop.items), <<",", " ">>))
               [] prop_type \in {"url", "email", "phone_number"} ->
                    prop.value                       \* return prop.get(...)
               [] prop_type = "number" ->
                    IF prop.num = <<>> THEN default ELSE Text(DecimalString(prop.num[1]))
               [] prop_type = "checkbox" ->
                    IF prop.flag = <<>> THEN default
                    ELSE IF prop.flag[1] THEN Text(<<"Y", "e", "s">>) ELSE Text(<<"N", "o">>)
               [] OTHER -> default

\* the extraction without its except: the exception goes to the caller
ExtractUnguarded(properties, property_name, default) ==
    TryExtract(properties, property_name, default)

\* _extract_property_text(properties, property_name, default): an exception
\* of the try block is logged and the default returned
_extract_property_text(properties, property_name, default) ==
    LET r == TryExtract(properties, property_name, default)
    IN  IF r = RaisedText THEN default ELSE r

-----------------------------------------------------------------------------
(* Notion pages (records) and their date tokens.                           *)

\* a date string of a page: form "date" is YYYY-MM-DD, form "datetime" is
\* YYYY-MM-DDTHH:00:00 followed by offset ("Z", "+02:00" or nothing), form
\* "garbage" is text fromisoformat rejects, form "none" is None
Token(form, hasT, d, h, off) ==
    [form |-> form, hasT |-> hasT, date |-> d, hour |-> h, offset |-> off]
TokNone == Token("none", FALSE, 0, 0, "")
TokDate == Token("date", FALSE, 5, 0, "")
TokDateTimeZ == Token("datetime", TRUE, 5, 9, "Z")
TokEndZ == Token("datetime", TRUE, 5, 11, "Z")
TokGarbage == Token("garbage", FALSE, 0, 0, "")
TokCreated == Token("datetime", TRUE, 1, 8, "Z")
TokEdited == Token("datetime", TRUE, 2, 8, "Z")
TokOffset == Token("datetime", TRUE, 5, 9, "+02:00")
TokNaive == Token("datetime", TRUE, 5, 9, "")
TokEndNaive == Token("datetime", TRUE, 5, 11, "")
TokEndDate == Token("date", FALSE, 7, 0, "")

\* "T" in date_str
HasT(tok) == tok.hasT
\* bool(date_info.get("end"))
TruthyTok(tok) == tok.form # "none"

\* the id of the k-th page the provider serves: two hex digits around a hyphen
PageId(k) == <<IdChars[((k \div 16) % 16) + 1], "-", IdChars[(k % 16) + 1]>>
\* the identity kept as it is, hyphens included
StripHyphensKept(s) == s

\* s.replace("-", "")
StripHyphens(s) == SelectSeq(s, LAMBDA c : c # "-")

\* what the provider may put in a page: has_properties is FALSE for a page
\* object without "properties"; date_prop is "absent" when the page has no
\* property of the configured name, "null" when its date is null, else "set"
\* the other properties of a page unless said otherwise: a title "A"
TitleA == ArrayProp("title", <<Run(<<"A">>)>>)
DefaultProperties == Properties(TitleA, AbsentProp, AbsentProp, AbsentProp)
Shape(hasProps, dateProp, start, end) ==
    [has_properties |-> hasProps, date_prop |-> dateProp, start |-> start, end |-> end,
     properties |-> DefaultProperties]
ShapeDated == Shape(TRUE, "set", TokDate, TokNone)
PagingShapes == {ShapeDated}
PageShapes ==
    {Shape(FALSE, "absent", TokNone, TokNone),
     Shape(TRUE, "absent", TokNone, TokNone),
     Shape(TRUE, "null", TokNone, TokNone),
     ShapeDated,
     Shape(TRUE, "set", TokDateTimeZ, TokNone),
     Shape(TRUE, "set", TokDateTimeZ, TokEndZ),
     Shape(TRUE, "set", TokGarbage, TokNone),
     Shape(TRUE, "set", TokDateTimeZ, TokGarbage)}

Page(k, shape) ==
    [id |-> PageId(k),
     has_properties |-> shape.has_properties,
     date_prop |-> shape.date_prop,
     start |-> shape.start,
     end |-> shape.end,
     properties |-> shape.properties,
     created_time |-> TokCreated,
     last_edited_time |-> TokEdited]

-----------------------------------------------------------------------------
(* Conversion of pages to events.                                          *)

\* the zone names pytz.timezone knows; any other raises UnknownTimeZoneError
Zones == {"UTC", "Europe/Paris"}
ValidZone(name) == name \in Zones

\* _parse_notion_date(date_str); clock is what datetime.now(tz.UTC) reads
_parse_notion_date(vc, tok, clock) ==
    IF tok.form \in {"garbage", "none"}
    THEN clock                                   \* except: return now
    ELSE IF HasT(tok)
         THEN IF tok.offset = "Z"
              THEN DateTime(tok.date, tok.hour, "+00:00")
              ELSE DateTime(tok.date, tok.hour, IF tok.offset = "" THEN None ELSE tok.offset)
         ELSE IF ValidZone(vc.timezone)
              THEN DateTime(tok.date, 0, vc.timezone)  \* timezone.localize(date_obj)
              ELSE clock                         \* except: return now

NoEvent == [type |-> "None"]
Raised == [type |-> "raise"]

\* the all-day branch without its default: the end stays as parsed
EndTimeAsParsed(all_day, start_time, parsed_end) == parsed_end

\* _page_to_event, "For all-day events, set end time to next day if not
\* specified": the end_time of the event
EndTime(all_day, start_time, parsed_end) ==
    IF all_day /\ parsed_end = NoTime
    THEN PlusDays(start_time, 1)                 \* start_time + timedelta(days=1)
    ELSE parsed_end

\* the try block of _page_to_event
PageToEventBody(vc, page, clock) ==
    IF ~page.has_properties THEN Raised          \* page["properties"]: KeyError
    ELSE IF page.date_prop # "set" THEN NoEvent  \* missing date property
    ELSE LET start_time == _parse_notion_date(vc, page.start, clock)
             parsed_end == IF TruthyTok(page.end)
                           THEN _parse_notion_date(vc, page.end, clock)
                           ELSE NoTime
             all_day == ~HasT(page.start)
             end_time == EndTime(all_day, start_time, parsed_end)
             title == _extract_property_text(page.properties, vc.title_property,
                                             UntitledEvent)
             description == IF TruthyStr(vc.description_property)
                            THEN _extract_property_text(page.properties,
                                                        vc.description_property, NoText)
                            ELSE NoText
             location == IF TruthyStr(vc.location_property)
                         THEN _extract_property_text(page.properties,
                                                     vc.location_property, NoText)
                         ELSE NoText
             url_prop == Lookup(page.properties, vc.url_property)
             url == IF TruthyStr(vc.url_property) /\ url_prop.type = "url"
                       /\ TruthyText(url_prop.value)
                    THEN url_prop.value
                    ELSE NoText
         IN  IF RaisedText \in {title, description, location}
             THEN Raised                         \* an exception leaves the try block
             ELSE IF title.none THEN Raised      \* CalendarEvent(title=None): ValidationError
             ELSE
             [type |-> "event",
              id |-> StripHyphens(page.id),
              title |-> title,
              description |-> description,
              start_time |-> start_time,
              end_time |-> end_time,
              all_day |-> all_day,
              location |-> location,
              url |-> url,
              created_time |-> _parse_notion_date(vc, page.created_time, clock),
              last_modified |-> _parse_notion_date(vc, page.last_edited_time, clock),
              notion_page_id |-> page.id]

\* _page_to_event(page): any exception of the body gives None
_page_to_event(vc, page, clock) ==
    LET r == PageToEventBody(vc, page, clock)
    IN  IF r.type = "raise" THEN NoEvent ELSE r

\* the loop leaving at the first page that gives no event (break for continue)
RECURSIVE ConvertPagesBreak(_, _, _)
ConvertPagesBreak(vc, pages, clock) ==
    IF pages = <<>> THEN <<>>
    ELSE LET event == _page_to_event(vc, Head(pages), clock)
         IN  IF event.type = "event"
             THEN <<event>> \o ConvertPagesBreak(vc, Tail(pages), clock)
             ELSE <<>>

\* the loop putting each event in front (events.insert(0, event))
RECURSIVE ConvertPagesPrepend(_, _, _)
ConvertPagesPrepend(vc, pages, clock) ==
    IF pages = <<>> THEN <<>>
    ELSE LET event == _page_to_event(vc, Head(pages), clock)
         IN  IF event.type = "event"
             THEN ConvertPagesPrepend(vc, Tail(pages), clock) \o <<event>>
             ELSE ConvertPagesPrepend(vc, Tail(pages), clock)

\* get_calendar_events, "Convert to CalendarEvent objects"
RECURSIVE ConvertPages(_, _, _)
ConvertPages(vc, pages, clock) ==
    IF pages = <<>> THEN <<>>
    ELSE LET event == _page_to_event(vc, Head(pages), clock)
         IN  IF event.type = "event"
             THEN <<event>> \o ConvertPages(vc, Tail(pages), clock)
             ELSE ConvertPages(vc, Tail(pages), clock)   \* falsy, or except: continue

-----------------------------------------------------------------------------
(* Serialization of events (ICSGenerator).                                 *)

NotionLinkPrefix ==
    <<"h", "t", "t", "p", "s", ":", "/", "/", "w", "w", "w", ".",
      "n", "o", "t", "i", "o", "n", ".", "s", "o", "/">>
LinkLinePrefix == <<"N", "o", "t", "i", "o", "n", ":", " ">>
UidSuffix ==
    <<"@", "n", "o", "t", "i", "o", "n", "-", "i", "c", "s", "-",
      "s", "e", "r", "v", "e", "r">>

\* max_length of _clean_description
max_length == 2000

\* _clean_description(description)
_clean_description(description) ==
    IF ~TruthyText(description) THEN Text(<<>>)
    ELSE LET cleaned == SelectSeq(description.s, LAMBDA c : c # "\r")
         IN  IF Len(cleaned) > max_length
             THEN Text(SubSeq(cleaned, 1, max_length) \o <<".", ".", ".">>)
             ELSE Text(cleaned)

\* a datetime.date
Date(d) == DateTime(d, 0, "date")
\* dt.date()
DateOf(dt) == Date(dt.date)
\* the naive datetime read as UTC whatever the zone
LocalizeUTC(zone, dt) == [dt EXCEPT !.tz = "UTC"]

\* timezone.localize(dt) of a naive datetime
Localize(zone, dt) == [dt EXCEPT !.tz = zone]

NoDuration == [hours |-> 0]
OneHour == [hours |-> 1]

\* _set_event_times(event, event_data, view_config): the begin, end,
\* duration and all-day mark the ICS event gets
_set_event_times(vc, event_data) ==
    IF ~ValidZone(vc.timezone)
    THEN \* pytz.timezone raises; except: fallback to the times as they are
         [begin |-> event_data.start_time, end |-> event_data.end_time,
          duration |-> NoDuration, all_day |-> FALSE]
    ELSE IF event_data.all_day
    THEN LET start_date == DateOf(event_data.start_time)
         IN  [begin |-> start_date,
              end |-> IF event_data.end_time # NoTime
                      THEN DateOf(event_data.end_time)
                      ELSE start_date,
              duration |-> NoDuration,
              all_day |-> TRUE]                  \* make_all_day()
    ELSE LET start_time == IF event_data.start_time.tz = None
                           THEN Localize(vc.timezone, event_data.start_time)
                           ELSE event_data.start_time
         IN  IF event_data.end_time # NoTime
             THEN [begin |-> start_time,
                   end |-> IF event_data.end_time.tz = None
                           THEN Localize(vc.timezone, event_data.end_time)
                           ELSE event_data.end_time,
                   duration |-> NoDuration, all_day |-> FALSE]
             ELSE [begin |-> start_time, end |-> NoTime,
                   duration |-> OneHour, all_day |-> FALSE]

\* _create_ics_event(event_data, view_config); clock is what
\* datetime.now(pytz.UTC) reads
_create_ics_event(vc, event_data, clock) ==
    LET cleaned == IF TruthyText(event_data.description)
                   THEN _clean_description(event_data.description)
                   ELSE NoText
        notion_link == NotionLinkPrefix \o StripHyphens(event_data.notion_page_id)
        link_line == LinkLinePrefix \o notion_link
        linked == event_data.notion_page_id # <<>>
        times == _set_event_times(vc, event_data)
    IN  [uid |-> event_data.id \o UidSuffix,
         name |-> IF TruthyText(vc.title_prefix)
                  THEN Text(vc.title_prefix.s \o event_data.title.s)
                  ELSE event_data.title,
         description |-> IF ~linked THEN cleaned
                         ELSE IF TruthyText(cleaned)
                              THEN Text(cleaned.s \o <<"\n", "\n">> \o link_line)
                              ELSE Text(link_line),
         location |-> IF TruthyText(event_data.location) THEN event_data.location
                      ELSE NoText,
         url |-> IF TruthyText(event_data.url) THEN event_data.url
                 ELSE IF linked THEN Text(notion_link)
                 ELSE NoText,
         created |-> event_data.created_time,
         last_modified |-> event_data.last_modified,
         dtstamp |-> clock,
         begin |-> times.begin,
         end |-> times.end,
         duration |-> times.duration,
         all_day |-> times.all_day]

\* generate_calendar: calendar.events, the set of the events' ICS events
CalendarOf(vc, list, clock) ==
    {_create_ics_event(vc, list[i], clock) : i \in 1..Len(list)}

-----------------------------------------------------------------------------
(* View configuration: config.yaml, _validate_view_config, ViewConfiguration. *)

ExprA == Comparison("Status", "select_equals", [lit |-> "Done"])
ExprB == Comparison("Kind", "select_equals", [lit |-> "Talk"])
ExprAnd == AndNode(<<ExprA, ExprB>>)

ViewDict(back, forward, f) ==
    [database_id |-> "db", date_property |-> "Date", timezone |-> "UTC",
     title_property |-> "Name", description_property |-> None,
     location_property |-> None, url_property |-> None, title_prefix |-> NoText,
     query_days_back |-> back, query_days_forward |-> forward, filters |-> f]
NoViewConfig == [ViewDict(NoInt, NoInt, NoFilter) EXCEPT !.database_id = ""]

\* _validate_view_config: the date range settings
ValidViewDict(d) ==
    /\ d.query_days_back # NoInt => d.query_days_back[1] >= 0
    /\ d.query_days_forward # NoInt => d.query_days_forward[1] >= 0

\* ViewConfiguration.filters is Optional[Dict[str, Any]]: model validation
\* takes None and a dict
FiltersFieldAccepts(f) == f.py \in {"None", "dict"}

\* pydantic v1 turns a list given for a Dict field into dict(list): each
\* two-key dict of the list contributes its first key mapped to its second
CoercedDict == Comparison("select", "", [lit |-> ""])

-----------------------------------------------------------------------------
(* The provider: what databases.query may answer.                          *)

Cursors == {"c1", "c2"}
\* next_cursor of a response that reports has_more: null, empty, or a token
NextCursors == {None, ""} \cup Cursors

NoQuery == [database_id |-> "", page_size |-> 0,
            filter |-> [py |-> Absent], start_cursor |-> Absent]
Response(pages, more, cursor) ==
    [ok |-> TRUE, results |-> pages, has_more |-> more, next_cursor |-> cursor]
FailedResponse == [ok |-> FALSE, results |-> <<>>, has_more |-> FALSE, next_cursor |-> None]

NotReturned == [returned |-> FALSE, list |-> <<>>]
Returned(list) == [returned |-> TRUE, list |-> list]

\* the instants datetime.now(tz.UTC) reads: noon of a day
Clock(d) == DateTime(d, 12, "UTC")

\* nothing logged yet
NoLog == [retrieved |-> <<>>, converted |-> <<>>]

\* both messages carrying the number of pages retrieved
LogCountsOfPages(pages, list) ==
    [retrieved |-> <<Len(pages)>>, converted |-> <<Len(pages)>>]

\* logger.info(f"Retrieved {len(results)} pages from Notion") and
\* logger.info(f"Converted {len(events)} pages to calendar events")
LogCounts(pages, list) ==
    [retrieved |-> <<Len(pages)>>, converted |-> <<Len(list)>>]

\* the view of a second feed, with a client of its own
SecondView == [ViewDict(Some(1), NoInt, ExprB) EXCEPT !.database_id = "db2"]
\* no second request yet: the second feed's view and empty locals
NoCall ==
    [pc |-> "idle", feed |-> "same", view_config |-> SecondView, now |-> Clock(0),
     filters |-> NoFilter, results |-> <<>>, has_more |-> FALSE,
     start_cursor |-> None, queries |-> <<>>, responses |-> <<>>,
     events |-> NotReturned, log |-> NoLog]

NoAnswer == [status |-> 0, uids |-> {}]
Answer(status, uids) == [status |-> status, uids |-> uids]


-----------------------------------------------------------------------------
(* Actions.                                                                *)

\* lifespan(app): load_config validates the view, ViewConfiguration(**dict)
\* validates the fields, and the client is built; any failure is re-raised
lifespan ==
    /\ pc = "startup"
    /\ IF ~ValidViewDict(config)
       THEN pc' = "failed" /\ UNCHANGED view_config
       ELSE IF FiltersFieldAccepts(config.filters)
       THEN pc' = "idle" /\ view_config' = config
       ELSE \/ pc' = "failed" /\ UNCHANGED view_config
            \/ /\ pc' = "idle"
               /\ view_config' = [config EXCEPT !.filters =
                      IF Len(config.filters.items) = 0 THEN EmptyDict ELSE CoercedDict]
    /\ UNCHANGED <<config, now, filters, results, has_more, start_cursor,
                   inflight, queries, responses, events, http, calendar, other, log>>

\* get_calendar_feed(view_name) for a view_name that is not configured: the
\* request has no client, no query and no events of its own
get_calendar_feed_unknown ==
    /\ pc = "idle"
    /\ http' = Answer(404, {})
    /\ calendar' = {}
    /\ log' = NoLog
    /\ UNCHANGED other
    /\ now' = Clock(0)
    /\ filters' = NoFilter
    /\ results' = <<>>
    /\ has_more' = FALSE
    /\ start_cursor' = None
    /\ inflight' = NoQuery
    /\ queries' = <<>>
    /\ responses' = <<>>
    /\ events' = NotReturned
    /\ UNCHANGED <<config, view_config, pc>>

\* get_calendar_feed(view_name) up to the first await: get_calendar_events
\* computes the window and the filter and enters the query loop
get_calendar_events(days) ==
    /\ pc = "idle"
    /\ \E d \in days :
          /\ now' = Clock(d)
          /\ filters' = BuildFilters(view_config, Clock(d))
          /\ view_config' = [view_config EXCEPT !.filters =
                 ExtraAfterMerge(view_config, WindowFilter(view_config, Clock(d)))]
    /\ results' = <<>>
    /\ has_more' = TRUE
    /\ start_cursor' = None
    /\ inflight' = NoQuery
    /\ queries' = <<>>
    /\ responses' = <<>>
    /\ events' = NotReturned
    /\ http' = NoAnswer
    /\ calendar' = {}
    /\ log' = NoLog
    /\ UNCHANGED other
    /\ pc' = "loop"
    /\ UNCHANGED config

\* the loop as "while True": a query is issued whatever has_more says
IssueQueryAlways ==
    /\ pc = "loop"
    /\ inflight' = QueryParams(view_config, filters, start_cursor)
    /\ queries' = Append(queries, QueryParams(view_config, filters, start_cursor))
    /\ pc' = "await"
    /\ UNCHANGED <<config, view_config, now, filters, results, has_more,
                   start_cursor, events, responses, http, calendar, other, log>>

\* the query sent without awaiting its response (the loop goes on)
IssueQueryNoAwait ==
    /\ pc = "loop"
    /\ has_more
    /\ inflight' = QueryParams(view_config, filters, start_cursor)
    /\ queries' = Append(queries, QueryParams(view_config, filters, start_cursor))
    /\ pc' = "loop"
    /\ UNCHANGED <<config, view_config, now, filters, results, has_more,
                   start_cursor, events, responses, http, calendar, other, log>>

\* one pass of "while has_more" up to the await of databases.query
IssueQuery ==
    /\ pc = "loop"
    /\ has_more
    /\ inflight' = QueryParams(view_config, filters, start_cursor)
    /\ queries' = Append(queries, QueryParams(view_config, filters, start_cursor))
    /\ pc' = "await"
    /\ UNCHANGED <<config, view_config, now, filters, results, has_more,
                   start_cursor, events, responses, http, calendar, other, log>>

\* results = response["results"]: the page replaces what was fetched
ExtendOverwrite(list, more) == more

\* results.extend(response["results"])
Extend(list, more) == list \o more

\* databases.query returns: the rest of the pass
QueryReturns(shapes, maxLen, maxPages) ==
    /\ pc = "await"
    /\ Len(responses) < maxPages
    /\ \E n \in 0..maxLen :
       \E content \in [1..n -> shapes] :
       \E more \in BOOLEAN :
       \E cursor \in (IF more THEN NextCursors ELSE {None}) :
          LET pages == [i \in 1..n |-> Page(Len(results) + i, content[i])]
              response == Response(pages, more, cursor)
          IN  /\ results' = Extend(results, response.results)
              /\ has_more' = response.has_more
              /\ start_cursor' = response.next_cursor
              /\ responses' = Append(responses, response)
    /\ inflight' = NoQuery
    /\ pc' = "loop"
    /\ UNCHANGED <<config, view_config, now, filters, queries, events, http, calendar, other, log>>

\* databases.query raises and the loop is left with what was fetched so far
QueryRaisesPartial ==
    /\ pc = "await"
    /\ responses' = Append(responses, FailedResponse)
    /\ inflight' = NoQuery
    /\ has_more' = FALSE
    /\ pc' = "loop"
    /\ UNCHANGED <<config, view_config, now, filters, results,
                   start_cursor, queries, events, http, calendar, other, log>>

\* databases.query raises: get_calendar_events logs and re-raises
QueryRaises ==
    /\ pc = "await"
    /\ responses' = Append(responses, FailedResponse)
    /\ inflight' = NoQuery
    /\ pc' = "raised"
    /\ UNCHANGED <<config, view_config, now, filters, results, has_more,
                   start_cursor, queries, events, http, calendar, other, log>>

\* the loop has ended: the pages are converted and the events returned
ConvertAndReturn ==
    /\ pc = "loop"
    /\ ~has_more
    /\ \E d \in {now.date, now.date + 1} :
          LET converted == ConvertPages(view_config, results, Clock(d))
          IN  /\ events' = Returned(converted)
              /\ log' = LogCounts(results, converted)
    /\ pc' = "returned"
    /\ UNCHANGED <<config, view_config, now, filters, results, has_more,
                   start_cursor, inflight, queries, responses, http, calendar, other>>

\* generate_calendar(events, ...): one VEVENT per event, kept as a set
generate_calendar(list) == {list[i].id : i \in 1..Len(list)}

\* get_calendar_feed after get_calendar_events returned
FeedResponse ==
    /\ pc = "returned"
    /\ http' = Answer(200, generate_calendar(events.list))
    /\ \E d \in {now.date, now.date + 1} :
          calendar' = CalendarOf(view_config, events.list, Clock(d))
    /\ UNCHANGED <<other, log>>
    /\ pc' = "idle"
    /\ UNCHANGED <<config, view_config, now, filters, results, has_more,
                   start_cursor, inflight, queries, responses, events>>

\* get_calendar_feed, except Exception: HTTPException(status_code=500)
FeedError ==
    /\ pc = "raised"
    /\ http' = Answer(500, {})
    /\ calendar' = {}
    /\ UNCHANGED <<other, log>>
    /\ pc' = "idle"
    /\ UNCHANGED <<config, view_config, now, filters, results, has_more,
                   start_cursor, inflight, queries, responses, events>>

\* a second request, served by the same event loop between the awaits of
\* the first: for the same feed (the shared client and its view_config) or
\* for the second feed (another client with a view_config of its own)
ViewOf(o) == IF o.feed = "same" THEN view_config ELSE o.view_config
Foreground == <<config, pc, now, filters, results, has_more, start_cursor,
                inflight, queries, responses, events, http, calendar, log>>

\* the second request's get_calendar_events up to the query loop
second_get_calendar_events(days) ==
    /\ pc \notin {"startup", "failed"}
    /\ other.pc = "idle"
    /\ \E feed \in {"same", "other"} :
       \E d \in days :
          LET vc == IF feed = "same" THEN view_config ELSE other.view_config
              after == [vc EXCEPT !.filters =
                           ExtraAfterMerge(vc, WindowFilter(vc, Clock(d)))]
          IN  /\ other' = [pc |-> "loop", feed |-> feed,
                           view_config |-> IF feed = "other" THEN after
                                           ELSE other.view_config,
                           now |-> Clock(d),
                           filters |-> BuildFilters(vc, Clock(d)),
                           results |-> <<>>, has_more |-> TRUE,
                           start_cursor |-> None, queries |-> <<>>,
                           responses |-> <<>>, events |-> NotReturned,
                           log |-> NoLog]
              /\ view_config' = IF feed = "same" THEN after ELSE view_config
    /\ UNCHANGED Foreground

\* one pass of its loop up to the await
SecondIssueQuery ==
    /\ other.pc = "loop"
    /\ other.has_more
    /\ other' = [other EXCEPT
           !.queries = Append(@, QueryParams(ViewOf(other), other.filters,
                                             other.start_cursor)),
           !.pc = "await"]
    /\ UNCHANGED <<view_config, Foreground>>

\* its query returns; the second request is served the pages from the 9th on
SecondQueryReturns(shapes, maxLen, maxPages) ==
    /\ other.pc = "await"
    /\ Len(other.responses) < maxPages
    /\ \E n \in 0..maxLen :
       \E content \in [1..n -> shapes] :
       \E more \in BOOLEAN :
       \E cursor \in (IF more THEN NextCursors ELSE {None}) :
          LET pages == [i \in 1..n |-> Page(8 + Len(other.results) + i, content[i])]
              response == Response(pages, more, cursor)
          IN  other' = [other EXCEPT
                  !.results = Extend(@, response.results),
                  !.has_more = response.has_more,
                  !.start_cursor = response.next_cursor,
                  !.responses = Append(@, response),
                  !.pc = "loop"]
    /\ UNCHANGED <<view_config, Foreground>>

\* its query raises: the request is answered with 500
SecondQueryRaises ==
    /\ other.pc = "await"
    /\ other' = [other EXCEPT !.responses = Append(@, FailedResponse), !.pc = "idle"]
    /\ UNCHANGED <<view_config, Foreground>>

\* its loop has ended: the pages are converted and the request is answered
SecondConvertAndReturn ==
    /\ other.pc = "loop"
    /\ ~other.has_more
    /\ \E d \in {other.now.date, other.now.date + 1} :
          LET converted == ConvertPages(ViewOf(other), other.results, Clock(d))
          IN  other' = [other EXCEPT
                  !.events = Returned(converted),
                  !.log = LogCounts(other.results, converted),
                  !.pc = "idle"]
    /\ UNCHANGED <<view_config, Foreground>>

-----------------------------------------------------------------------------
(* Specifications.                                                         *)

Before ==
    /\ now = Clock(0)
    /\ filters = NoFilter
    /\ results = <<>>
    /\ has_more = FALSE
    /\ start_cursor = None
    /\ inflight = NoQuery
    /\ queries = <<>>
    /\ responses = <<>>
    /\ events = NotReturned
    /\ http = NoAnswer
    /\ calendar = {}
    /\ other = NoCall
    /\ log = NoLog

\* the server's views: no window and no filter; a two-sided window and one
\* extra expression; a list of extra expressions; a negative look-back
ServerConfigs ==
    {ViewDict(NoInt, NoInt, NoFilter),
     ViewDict(Some(1), Some(1), ExprA),
     ViewDict(NoInt, NoInt, PyList(<<ExprA, ExprB>>)),
     ViewDict(Some(0 - 1), NoInt, NoFilter)}

\* the server: started with a view from config.yaml, serving requests
Init ==
    /\ config \in ServerConfigs
    /\ view_config = NoViewConfig
    /\ pc = "startup"
    /\ Before

Next ==
    \/ lifespan
    \/ get_calendar_feed_unknown
    \/ get_calendar_events({20})
    \/ IssueQuery
    \/ QueryReturns(PagingShapes, MaxPageLen, MaxPages)
    \/ QueryRaises
    \/ ConvertAndReturn
    \/ FeedResponse
    \/ FeedError

Spec == Init /\ [][Next]_vars

\* the server with pages of at most one record: whether the loop ends does
\* not depend on what the pages hold
NextPaging ==
    \/ lifespan
    \/ get_calendar_feed_unknown
    \/ get_calendar_events({20})
    \/ IssueQuery
    \/ QueryReturns(PagingShapes, 1, MaxPages)
    \/ QueryRaises
    \/ ConvertAndReturn
    \/ FeedResponse
    \/ FeedError

\* the scheduling of the server: the event loop runs a coroutine that can
\* run, and an awaited databases.query ends, by returning or by raising
Fairness ==
    /\ WF_vars(IssueQuery)
    /\ WF_vars(ConvertAndReturn)
    /\ WF_vars(FeedResponse)
    /\ WF_vars(FeedError)
    /\ WF_vars(QueryReturns(PagingShapes, 1, MaxPages) \/ QueryRaises)

FairSpec == Init /\ [][NextPaging]_vars /\ Fairness

\* the server answering from one provider response whose pages have every
\* shape: the conversion of a batch
NextConvert ==
    \/ lifespan
    \/ get_calendar_feed_unknown
    \/ get_calendar_events({20})
    \/ IssueQuery
    \/ QueryReturns(PageShapes, MaxBatch, 1)
    \/ QueryRaises
    \/ ConvertAndReturn
    \/ FeedResponse
    \/ FeedError

SpecConvert == Init /\ [][NextConvert]_vars

\* every view a NotionCalendarClient can be handed: view_config.filters is
\* read by get_calendar_events as None, a dict or a list (a list reaches it
\* when the ViewConfiguration is built or changed without model validation)
OptDays == {NoInt} \cup {Some(n) : n \in 0..MaxDays}
ExprLists == UNION {[1..n -> {ExprA, ExprB}] : n \in 0..MaxExtras}
ExtraFilters == {NoFilter, EmptyDict, ExprA, ExprAnd} \cup {PyList(l) : l \in ExprLists}
ClientConfigs ==
    {ViewDict(back, forward, f) : back \in OptDays, forward \in OptDays, f \in ExtraFilters}

InitFilter ==
    /\ config \in ClientConfigs
    /\ view_config = config
    /\ pc = "idle"
    /\ Before

NextFilter ==
    \/ get_calendar_feed_unknown
    \/ get_calendar_events({20, 21})
    \/ IssueQuery
    \/ QueryReturns(PagingShapes, 1, 1)
    \/ QueryRaises
    \/ ConvertAndReturn
    \/ FeedResponse
    \/ FeedError

SpecFilter == InitFilter /\ [][NextFilter]_vars

\* the server answering from one record, for every way the record's dates
\* and properties can be filled and every way the view can name them
DateShapes ==
    {ShapeDated,
     Shape(TRUE, "set", TokDate, TokEndDate),
     Shape(TRUE, "set", TokDate, TokEndZ),
     Shape(TRUE, "set", TokDateTimeZ, TokNone),
     Shape(TRUE, "set", TokDateTimeZ, TokEndZ),
     Shape(TRUE, "set", TokDateTimeZ, TokEndDate),
     Shape(TRUE, "set", TokOffset, TokNone),
     Shape(TRUE, "set", TokNaive, TokNone),
     Shape(TRUE, "set", TokNaive, TokEndNaive)}

LabelA == Run(<<"A">>)
LabelB == Run(<<"B">>)
SomeUrl == Text(<<"h", ":", "x">>)
NameProps ==
    {AbsentProp,
     TitleA,
     ArrayProp("title", <<LabelA, LabelB>>),
     ArrayProp("title", <<>>),
     ArrayProp("title", <<LabelA, BrokenRun>>),
     ArrayProp("rich_text", <<LabelB, LabelA>>),
     ArrayProp("rich_text", <<>>),
     ValueProp("select", Text(<<"A">>)),
     ValueProp("select", NoText),
     ArrayProp("multi_select", <<LabelA, LabelB>>),
     ArrayProp("multi_select", <<>>),
     ValueProp("url", SomeUrl),
     ValueProp("url", NoText),
     ValueProp("email", NoText),
     ValueProp("phone_number", NoText),
     NumberProp(<<12>>),
     NumberProp(<<>>),
     CheckboxProp(<<TRUE>>),
     CheckboxProp(<<FALSE>>),
     CheckboxProp(<<>>),
     ValueProp("formula", Text(<<"A">>))}
NotesProps ==
    {AbsentProp,
     ArrayProp("rich_text", <<Run(<<"n", "\r">>), LabelB>>),
     ArrayProp("rich_text", <<BrokenRun>>),
     ValueProp("people", NoText)}
WhereAndLink ==
    {<<AbsentProp, AbsentProp>>,
     <<ValueProp("select", Text(<<"B">>)), ValueProp("url", SomeUrl)>>,
     <<ValueProp("files", NoText), ValueProp("url", NoText)>>}
PropertyShapes ==
    {[ShapeDated EXCEPT !.properties = Properties(name, notes, wl[1], wl[2])] :
        name \in NameProps, notes \in NotesProps, wl \in WhereAndLink}
EventShapes == DateShapes \cup PropertyShapes

EventConfigs ==
    {[ViewDict(NoInt, NoInt, NoFilter) EXCEPT
         !.title_property = title, !.description_property = description,
         !.location_property = "Where", !.url_property = url,
         !.timezone = zone, !.title_prefix = prefix] :
        title \in {None, "Name"}, description \in {None, "Notes"},
        url \in {None, "Link"}, zone \in Zones \cup {"Mars/Phobos"},
        prefix \in {NoText, Text(<<"#">>)}}

InitEvent ==
    /\ config \in EventConfigs
    /\ view_config = config
    /\ pc = "idle"
    /\ Before

NextEvent ==
    \/ get_calendar_feed_unknown
    \/ get_calendar_events({20})
    \/ IssueQuery
    \/ QueryReturns(EventShapes, 1, 1)
    \/ QueryRaises
    \/ ConvertAndReturn
    \/ FeedResponse
    \/ FeedError

SpecEvent == InitEvent /\ [][NextEvent]_vars

\* the server running with a view handed to the client, serving two
\* requests at a time; the views with a window have one of MaxDays days
WindowDays == {NoInt, Some(MaxDays)}
ConcurrentConfigs ==
    {ViewDict(back, forward, f) :
        back \in WindowDays, forward \in WindowDays,
        f \in {NoFilter, ExprA, ExprAnd, PyList(<<ExprA, ExprB>>)}}

InitConcurrent ==
    /\ config \in ConcurrentConfigs
    /\ view_config = config
    /\ pc = "idle"
    /\ Before

NextConcurrent ==
    \/ get_calendar_events({20, 21})
    \/ IssueQuery
    \/ QueryReturns(PagingShapes, 1, 1)
    \/ QueryRaises
    \/ ConvertAndReturn
    \/ FeedResponse
    \/ FeedError
    \/ second_get_calendar_events({20, 21})
    \/ SecondIssueQuery
    \/ SecondQueryReturns(PagingShapes, 1, 1)
    \/ SecondQueryRaises
    \/ SecondConvertAndReturn

SpecConcurrent == InitConcurrent /\ [][NextConcurrent]_vars

\* the server started with a view whose date range settings are anything
\* config.yaml can hold for them: omitted, negative, zero, positive
RangeSettings == {NoInt} \cup {Some(n) : n \in (0 - 1)..MaxDays}
RangeConfigs ==
    {ViewDict(back, forward, f) :
        back \in RangeSettings, forward \in RangeSettings, f \in {NoFilter, ExprA}}

InitRange ==
    /\ config \in RangeConfigs
    /\ view_config = NoViewConfig
    /\ pc = "startup"
    /\ Before

NextRange ==
    \/ lifespan
    \/ get_calendar_feed_unknown
    \/ get_calendar_events({20, 21})
    \/ IssueQuery
    \/ QueryReturns(PagingShapes, 1, 1)
    \/ QueryRaises
    \/ ConvertAndReturn
    \/ FeedResponse
    \/ FeedError

SpecRange == InitRange /\ [][NextRange]_vars

\* ICSGenerator.generate_calendar called with events of any caller's making
\* (example.py hands it a list): the CalendarEvent fields the model's types
\* allow, an all-day event without end_time among them
GivenStarts ==
    {DateTime(5, 9, "+00:00"), DateTime(5, 9, None), DateTime(5, 0, "Europe/Paris")}
GivenEnds == {NoTime, DateTime(5, 11, "+00:00"), DateTime(5, 11, None)}
GivenEvent(start_time, end_time, all_day) ==
    [type |-> "event",
     id |-> StripHyphens(PageId(1)),
     title |-> Text(<<"A">>),
     description |-> NoText,
     start_time |-> start_time,
     end_time |-> end_time,
     all_day |-> all_day,
     location |-> NoText,
     url |-> NoText,
     created_time |-> DateTime(1, 8, "+00:00"),
     last_modified |-> DateTime(2, 8, "+00:00"),
     notion_page_id |-> PageId(1)]
GivenEvents ==
    {GivenEvent(start_time, end_time, all_day) :
        start_time \in GivenStarts, end_time \in GivenEnds, all_day \in BOOLEAN}
GeneratorConfigs ==
    {[ViewDict(NoInt, NoInt, NoFilter) EXCEPT !.timezone = zone] :
        zone \in Zones \cup {"Mars/Phobos"}}

InitICS ==
    /\ config \in GeneratorConfigs
    /\ view_config = config
    /\ pc = "returned"
    /\ events \in {Returned(<<e>>) : e \in GivenEvents}
    /\ now = Clock(0)
    /\ filters = NoFilter
    /\ results = <<>>
    /\ has_more = FALSE
    /\ start_cursor = None
    /\ inflight = NoQuery
    /\ queries = <<>>
    /\ responses = <<>>
    /\ http = NoAnswer
    /\ calendar = {}
    /\ other = NoCall
    /\ log = NoLog

NextICS ==
    \/ get_calendar_feed_unknown
    \/ get_calendar_events({20})
    \/ IssueQuery
    \/ QueryReturns(DateShapes, 1, 1)
    \/ QueryRaises
    \/ ConvertAndReturn
    \/ FeedResponse
    \/ FeedError

SpecICS == InitICS /\ [][NextICS]_vars

-----------------------------------------------------------------------------
(* Properties of the pagination loop.                                      *)

RECURSIVE Concatenation(_)
Concatenation(rs) ==
    IF rs = <<>> THEN <<>> ELSE Head(rs).results \o Concatenation(Tail(rs))

\* the provider served a finite sequence of pages: every page but the last
\* reported has_more, the last did not
PagesComplete ==
    /\ responses # <<>>
    /\ \A i \in 1..Len(responses) :
          responses[i].ok /\ (responses[i].has_more <=> i < Len(responses))

\* C1: when every page but the last reports has_more and the last does not,
\* the records fetched are exactly the concatenation of the pages' records,
\* in page order and in within-page order, none dropped and none duplicated;
\* the list handed to the conversion is that list.
C1_FetchIsConcatenation ==
    PagesComplete =>
        /\ results = Concatenation(responses)
        /\ \A i \in 1..Len(results) : results[i].id = PageId(i)
        /\ events.returned => Len(events.list) = Len(results)

\* three pages of 2, 2 and 1 records were fetched and returned
C1_Witness ==
    /\ pc = "returned"
    /\ Len(responses) = 3
    /\ Len(responses[1].results) = 2
    /\ Len(responses[2].results) = 2
    /\ Len(responses[3].results) = 1
    /\ Len(results) = 5

\* what a query carries as its cursor: None when it has no start_cursor key
Carried(q) == IF q.start_cursor = Absent THEN None ELSE q.start_cursor

\* C2: the first query carries no cursor, every later query carries exactly
\* the next_cursor of the response before it (a null or an empty one too),
\* and a query without a cursor is never issued twice in one fetch.
C2_CursorForwarded ==
    /\ \A i \in 1..Len(queries) :
          IF i = 1 THEN queries[i].start_cursor = Absent
          ELSE /\ Carried(queries[i]) = responses[i - 1].next_cursor
               /\ queries[i].start_cursor # Absent

\* C3: once a response reports has_more = false no further query is issued,
\* and from there the fetch completes and returns.
C3_LastPageSeen ==
    /\ pc = "loop"
    /\ responses # <<>>
    /\ ~responses[Len(responses)].has_more

C3_NoQueryAfterLastPage ==
    /\ Len(queries) <= Len(responses) + 1
    /\ \A i \in 1..Len(responses) :
          (responses[i].ok /\ ~responses[i].has_more) =>
              /\ i = Len(responses)
              /\ Len(queries) = i
              /\ inflight = NoQuery

C3_Terminates ==
    /\ []C3_NoQueryAfterLastPage
    /\ C3_LastPageSeen ~> (pc = "returned" /\ events.returned)

\* the last of three pages has been received and the loop is about to end
C3_Witness ==
    /\ C3_LastPageSeen
    /\ Len(responses) = 3
    /\ Len(queries) = 3
    /\ Len(results) = 3

\* C4: a provider query that fails, on the first or on a later page, ends
\* the fetch: nothing is returned, the query is not issued again, no further
\* page is requested, and the HTTP layer answers 500.
C4_FailureAborts ==
    \A i \in 1..Len(responses) :
        ~responses[i].ok =>
            /\ i = Len(responses)
            /\ Len(queries) = i
            /\ inflight = NoQuery
            /\ ~events.returned
            /\ pc \in {"raised", "idle"}
            /\ pc = "idle" => http = Answer(500, {})
            /\ pc = "raised" => http = NoAnswer

\* the query for the second page failed after a first page with records,
\* and the request was answered
C4_Witness ==
    /\ pc = "idle"
    /\ Len(responses) = 2
    /\ responses[1].ok
    /\ Len(responses[1].results) = 2
    /\ ~responses[2].ok
    /\ http.status = 500

-----------------------------------------------------------------------------
(* Properties of the conversion of a batch.                                *)

EventPageIds == {events.list[j].notion_page_id : j \in 1..Len(events.list)}
EventPageIdSeq == [j \in 1..Len(events.list) |-> events.list[j].notion_page_id]
PageIdSeq(pages) == [i \in 1..Len(pages) |-> pages[i].id]

\* C5: an exception raised while normalizing one record drops that record
\* only: get_calendar_events returns, the request is answered with a feed,
\* and every record of the batch that normalizes is in the result.
C5_RecordFailureIsolated ==
    /\ (PagesComplete /\ pc \in {"returned", "idle"}) =>
          /\ events.returned
          /\ pc = "idle" => http.status = 200
    /\ events.returned =>
          \A i \in 1..Len(results) :
              PageToEventBody(view_config, results[i], now).type = "event" =>
                  /\ results[i].id \in EventPageIds
                  /\ pc = "idle" => StripHyphens(results[i].id) \in http.uids

\* the first record of a batch raised, the second was converted and served
C5_Witness ==
    /\ pc = "idle"
    /\ http.status = 200
    /\ Len(results) = 2
    /\ PageToEventBody(view_config, results[1], now) = Raised
    /\ EventPageIdSeq = <<results[2].id>>

LacksDate(page) == page.date_prop # "set"
Unparseable(page) ==
    page.date_prop = "set" /\ (page.start.form = "garbage" \/ page.end.form = "garbage")

\* C6: a record whose date field is missing or empty is skipped, and the
\* events are the records that were not skipped, in the provider's order:
\* a subsequence of the fetched records, as many as the batch has records
\* with a date when its other records are well formed.
C6_DatelessSkippedOrderKept ==
    events.returned =>
        /\ \A i \in 1..Len(results) : LacksDate(results[i]) => results[i].id \notin EventPageIds
        /\ EventPageIdSeq = PageIdSeq(SelectSeq(results, LAMBDA p : p.id \in EventPageIds))
        /\ (\A i \in 1..Len(results) : results[i].has_properties /\ ~Unparseable(results[i])) =>
              Len(events.list) =
                  Len(results) - Cardinality({i \in 1..Len(results) : LacksDate(results[i])})

\* of three records the second has no date: the first and the third are the
\* events, in that order
C6_Witness ==
    /\ events.returned
    /\ Len(results) = 3
    /\ results[1].date_prop = "set"
    /\ results[2].has_properties
    /\ results[2].date_prop = "absent"
    /\ results[3].date_prop = "set"
    /\ EventPageIdSeq = <<results[1].id, results[3].id>>

\* C7: a record whose date token cannot be parsed is skipped and gives no
\* event, so no event carries the current instant in place of a date that
\* did not parse.
C7_UnparseableSkipped ==
    events.returned =>
        \A i \in 1..Len(results) : Unparseable(results[i]) => results[i].id \notin EventPageIds

-----------------------------------------------------------------------------
(* Properties of the query filter.                                         *)

\* the comparisons a window gives on the date field: on-or-after the start
\* when there is a look-back, then on-or-before the end when there is a
\* look-ahead, each against the ISO form of now shifted by whole days
OnOrAfterStart(vc) ==
    [py |-> "dict", key |-> "property", property |-> "Date", op |-> "on_or_after",
     value |-> [iso |-> [date |-> now.date - vc.query_days_back[1], hour |-> 12, tz |-> "UTC"]]]
OnOrBeforeEnd(vc) ==
    [py |-> "dict", key |-> "property", property |-> "Date", op |-> "on_or_before",
     value |-> [iso |-> [date |-> now.date + vc.query_days_forward[1], hour |-> 12, tz |-> "UTC"]]]
WindowComparisons(vc) ==
    (IF vc.query_days_back # NoInt THEN <<OnOrAfterStart(vc)>> ELSE <<>>)
        \o (IF vc.query_days_forward # NoInt THEN <<OnOrBeforeEnd(vc)>> ELSE <<>>)

\* the window filter that _build_date_filter is expected to give
ExpectedWindowFilter(vc) ==
    LET cs == WindowComparisons(vc)
    IN  IF Len(cs) = 0 THEN [py |-> "None"]
        ELSE IF Len(cs) = 1 THEN cs[1]
        ELSE [py |-> "dict", key |-> "and", and |-> cs]

\* the extra filter of the view as a list of expressions
ExtraList(f) ==
    IF f.py = "list" THEN f.items ELSE IF f.py = "dict" /\ f.key # "" THEN <<f>> ELSE <<>>

InCall == pc \in {"loop", "await", "returned", "raised"}

\* C8: the window filter on the date field is none when both bounds are
\* absent, one on-or-after comparison when only the start is present, one
\* on-or-before comparison when only the end is present, and an and-node of
\* exactly the two comparisons, start first, when both are present; with no
\* extra filter it is the filter every query carries.
C8_WindowFilterShape ==
    InCall =>
        /\ _build_date_filter(view_config, StartDate(view_config, now), EndDate(view_config, now))
              = ExpectedWindowFilter(view_config)
        /\ ExtraList(view_config.filters) = <<>> =>
              \A i \in 1..Len(queries) :
                  queries[i].filter =
                      IF WindowComparisons(view_config) = <<>> THEN [py |-> Absent]
                      ELSE ExpectedWindowFilter(view_config)

\* a query went out for a view with only a look-ahead and no extra filter
C8_Witness ==
    /\ queries # <<>>
    /\ view_config.query_days_back = NoInt
    /\ view_config.query_days_forward = Some(1)
    /\ view_config.filters = NoFilter
    /\ queries[1].filter.op = "on_or_before"

\* C9: with a window filter and n >= 1 extra expressions the query filter is
\* one and-node over the window comparisons followed by the extras in their
\* order: 1 + n long for a one-sided window, 2 + n for a two-sided one, the
\* window comparisons directly in it and not inside an and-node of their own.
C9_MergeIsFlat ==
    LET cs == WindowComparisons(view_config)
        extra == ExtraList(view_config.filters)
    IN  (Len(cs) >= 1 /\ Len(extra) >= 1) =>
            \A i \in 1..Len(queries) :
                /\ queries[i].filter.py = "dict"
                /\ queries[i].filter.key = "and"
                /\ queries[i].filter.and = cs \o extra
                /\ Len(queries[i].filter.and) = Len(cs) + Len(extra)
                /\ \A k \in 1..Len(cs) : queries[i].filter.and[k].key = "property"

\* two extras merged into the two comparisons of a two-sided window: the
\* query went out with an and-node of four
C9_Witness ==
    /\ queries # <<>>
    /\ Len(WindowComparisons(view_config)) = 2
    /\ view_config.filters = PyList(<<ExprA, ExprB>>)
    /\ Len(queries[1].filter.and) = 4

\* C10: with no window the query filter is the extra filter collapsed (one
\* expression as it is, two or more as an and-node over the list, none as no
\* filter at all), and the extra filter of a view may be configured as one
\* expression or as a list of expressions.
C10_ExtraFilterCollapsed ==
    LET extra == ExtraList(config.filters)
    IN  /\ (pc # "startup" /\ ValidViewDict(config)) =>
              /\ pc # "failed"
              /\ view_config.filters = config.filters
        /\ (config.query_days_back = NoInt /\ config.query_days_forward = NoInt) =>
              \A i \in 1..Len(queries) :
                  queries[i].filter =
                      IF Len(extra) = 0 THEN [py |-> Absent]
                      ELSE IF Len(extra) = 1 THEN extra[1]
                      ELSE [py |-> "dict", key |-> "and", and |-> extra]

-----------------------------------------------------------------------------
(* C11: all-day inference.                                                 *)

\* the page of results an event was made from
SourcePage(e) == CHOOSE page \in {results[j] : j \in 1..Len(results)} :
                     page.id = e.notion_page_id
ReturnedEvents == {events.list[i] : i \in 1..Len(events.list)}
\* the code can read the token as a date: it has a form fromisoformat takes
\* and, for a date without a time, the view names a zone to put it in
Resolvable(tok) ==
    /\ tok.form \in {"date", "datetime"}
    /\ tok.hasT \/ ValidZone(view_config.timezone)

\* C11: every event of a returned list is all-day exactly when the start
\* token of its page has no time of day, whatever the end token; an all-day
\* event has an end, which is on the day and hour the end token names when
\* the page has one, and the start moved by exactly one day when it has none
C11_AllDayInference ==
    events.returned =>
      \A e \in ReturnedEvents :
         LET page == SourcePage(e)
         IN  /\ e.all_day <=> ~page.start.hasT
             /\ e.all_day => e.end_time # NoTime
             /\ e.all_day /\ page.end.form = "none" =>
                   /\ e.end_time.date = e.start_time.date + 1
                   /\ e.end_time.hour = e.start_time.hour
                   /\ e.end_time.tz = e.start_time.tz
             /\ e.all_day /\ Resolvable(page.end) =>
                   /\ e.end_time.date = page.end.date
                   /\ e.end_time.hour = page.end.hour

\* an all-day event made from a page without an end, in a view of a named
\* zone: the 5th at local midnight gives an end on the 6th
C11_Witness ==
    /\ events.returned
    /\ \E e \in ReturnedEvents :
          /\ e.all_day
          /\ SourcePage(e).end.form = "none"
          /\ e.end_time = DateTime(6, 0, "Europe/Paris")

-----------------------------------------------------------------------------
(* C12: default durations at serialization.                                *)

\* the ICS event generate_calendar made of e
Serialized(e) == CHOOSE v \in calendar : v.uid = e.id \o UidSuffix
Answered == pc = "idle" /\ http.status = 200

\* C12: in the calendar of an answer, a timed event without end has a
\* duration of one hour; a timed event with an end ends on the day and hour
\* of that end; an all-day event without end is an all-day ICS event that
\* begins and ends on the day of its start
C12_SerializedTimes ==
    Answered =>
      \A e \in ReturnedEvents :
         LET v == Serialized(e)
         IN  /\ ~e.all_day /\ e.end_time = NoTime => v.duration = OneHour
             /\ ~e.all_day /\ e.end_time # NoTime =>
                   /\ v.end.date = e.end_time.date
                   /\ v.end.hour = e.end_time.hour
             /\ e.all_day /\ e.end_time = NoTime =>
                   /\ v.all_day
                   /\ v.begin = Date(e.start_time.date)
                   /\ v.end = v.begin

-----------------------------------------------------------------------------
(* C13: the title of an event.                                             *)

KnownKinds == {"title", "rich_text", "select", "multi_select", "url", "email",
               "phone_number", "number", "checkbox"}
\* the property the view names holds nothing to read in this page
NoValue(page, property_name) ==
    LET prop == Lookup(page.properties, property_name)
    IN  \/ property_name = None
        \/ prop.type = "absent"
        \/ prop.type \notin KnownKinds
        \/ /\ prop.type \in {"title", "rich_text", "multi_select"}
           /\ prop.items = <<>> \/ \E i \in 1..Len(prop.items) : ~prop.items[i].has_text
        \/ prop.type \in {"select", "url", "email", "phone_number"} /\ prop.value.none
        \/ prop.type = "number" /\ prop.num = <<>>
        \/ prop.type = "checkbox" /\ prop.flag = <<>>
HasValidDate(page) ==
    page.has_properties /\ page.date_prop = "set" /\ Resolvable(page.start)

\* C13: every fetched page with a valid date is among the returned events
\* with a title that is not empty, and with the title "Untitled Event" when
\* the title property holds nothing to read
C13_TitleNeverEmpty ==
    events.returned =>
      \A j \in 1..Len(results) :
         HasValidDate(results[j]) =>
            \E e \in ReturnedEvents :
               /\ e.notion_page_id = results[j].id
               /\ e.title.s # <<>>
               /\ NoValue(results[j], view_config.title_property) =>
                     e.title = UntitledEvent

-----------------------------------------------------------------------------
(* C14: the link to the page, the url and the identities.                  *)

\* a page id is two characters around a hyphen: the id without the hyphen
Compact(id) == <<id[1], id[3]>>
CanonicalLink(page) == NotionLinkPrefix \o Compact(page.id)
TrailingBlock(page) == LinkLinePrefix \o CanonicalLink(page)
\* the last n characters of a string
Suffix(str, n) == SubSeq(str, Len(str) - n + 1, Len(str))
\* the url the page holds under the property the view names for it
ExtractedUrl(page) ==
    IF view_config.url_property = "Link" /\ page.properties.Link.type = "url"
          /\ ~page.properties.Link.value.none /\ page.properties.Link.value.s # <<>>
    THEN page.properties.Link.value
    ELSE NoText

\* C14: in the calendar of an answer the description of every event ends
\* with the line "Notion: <link>", the link being built from the page id
\* without its hyphen; that line is the whole description when no
\* description was extracted and follows a blank line otherwise; the url is
\* the extracted url when the page gave one and the link otherwise; the
\* event's id is the page id without the hyphen and notion_page_id is the
\* page id with it
C14_LinkUrlAndIdentity ==
    Answered =>
      \A e \in ReturnedEvents :
         LET page == SourcePage(e)
             v == Serialized(e)
             block == TrailingBlock(page)
             text == v.description.s
         IN  /\ ~v.description.none
             /\ Len(text) >= Len(block)
             /\ Suffix(text, Len(block)) = block
             /\ (e.description.none \/ e.description.s = <<>>) => text = block
             /\ Len(text) > Len(block) =>
                   Suffix(text, Len(block) + 2) = <<"\n", "\n">> \o block
             /\ v.url = IF ExtractedUrl(page) # NoText
                        THEN ExtractedUrl(page)
                        ELSE Text(CanonicalLink(page))
             /\ e.id = Compact(page.id)
             /\ e.notion_page_id = page.id
             /\ \E i \in 1..Len(e.notion_page_id) : e.notion_page_id[i] = "-"
             /\ \A i \in 1..Len(e.id) : e.id[i] # "-"

\* an answer with an event that has an extracted description and no
\* extracted url: the link follows the description and is the url
C14_Witness ==
    /\ Answered
    /\ \E e \in ReturnedEvents :
          /\ ~e.description.none /\ e.description.s # <<>>
          /\ e.url = NoText
          /\ Len(Serialized(e).description.s) > Len(TrailingBlock(SourcePage(e)))
          /\ Serialized(e).url = Text(CanonicalLink(SourcePage(e)))

-----------------------------------------------------------------------------
(* C15: timezone resolution.                                               *)

HasOffset(tok) == tok.form = "datetime" /\ tok.offset # ""
IsNaive(tok) == tok.form = "datetime" /\ tok.offset = ""
IsDateOnly(tok) == tok.form = "date"
\* the instant a token with an offset names, "Z" being UTC
AtOwnOffset(tok) ==
    [date |-> tok.date, hour |-> tok.hour,
     tz |-> IF tok.offset = "Z" THEN "+00:00" ELSE tok.offset]
\* the day and hour of a token in the zone of the view
InViewZone(tok) ==
    [date |-> tok.date, hour |-> IF tok.form = "date" THEN 0 ELSE tok.hour,
     tz |-> view_config.timezone]

\* C15: a start or end token with an offset keeps that offset in the event
\* and in the calendar, in every view; in a view whose timezone is a zone,
\* a token with a time and no offset is in the view's zone in the calendar,
\* and a date-only token is midnight of its date in the view's zone
C15_OffsetBeforeViewZone ==
    Answered =>
      \A e \in ReturnedEvents :
         LET page == SourcePage(e)
             v == Serialized(e)
             zoned == ValidZone(view_config.timezone)
         IN  /\ HasOffset(page.start) =>
                   e.start_time = AtOwnOffset(page.start) /\ v.begin = e.start_time
             /\ HasOffset(page.end) => e.end_time = AtOwnOffset(page.end)
             /\ HasOffset(page.end) /\ ~e.all_day => v.end = e.end_time
             /\ zoned /\ IsNaive(page.start) => v.begin = InViewZone(page.start)
             /\ zoned /\ IsNaive(page.end) /\ ~e.all_day => v.end = InViewZone(page.end)
             /\ zoned /\ IsDateOnly(page.start) => e.start_time = InViewZone(page.start)
             /\ zoned /\ IsDateOnly(page.end) => e.end_time = InViewZone(page.end)

\* an answer for a view in the zone Europe/Paris with an event begun at a
\* time without offset, and so serialized in that zone
C15_Witness ==
    /\ Answered
    /\ view_config.timezone = "Europe/Paris"
    /\ \E e \in ReturnedEvents :
          /\ IsNaive(SourcePage(e).start)
          /\ e.start_time.tz = None
          /\ Serialized(e).begin = DateTime(5, 9, "Europe/Paris")

-----------------------------------------------------------------------------
(* C16: a property that cannot be read.                                    *)

\* the page holds, under this name, a kind the extraction does not know or
\* an array with an element that lacks its text
Unreadable(page, property_name) ==
    LET prop == Lookup(page.properties, property_name)
    IN  /\ property_name # None
        /\ \/ prop.type \notin KnownKinds \cup {"absent"}
           \/ /\ prop.type \in {"title", "rich_text", "multi_select"}
              /\ \E i \in 1..Len(prop.items) : ~prop.items[i].has_text
\* the page with the properties that cannot be read taken out
WithoutUnreadable(page) ==
    LET kept(name) == IF Unreadable(page, name) THEN AbsentProp
                      ELSE Lookup(page.properties, name)
    IN  [page EXCEPT !.properties =
            Properties(kept("Name"), kept("Notes"), kept("Where"), kept("Link"))]

\* C16: the events returned are the events the same pages would give
\* without their unreadable properties (so a property that cannot be read
\* neither stops the conversion of its record nor changes what the other
\* properties give), and such a property gives no value: no description, no
\* location, the default title
C16_ExtractionFailureIsolated ==
    events.returned =>
      /\ \E d \in {now.date, now.date + 1} :
            events.list = ConvertPages(view_config,
                              [j \in 1..Len(results) |-> WithoutUnreadable(results[j])],
                              Clock(d))
      /\ \A e \in ReturnedEvents :
            LET page == SourcePage(e)
            IN  /\ Unreadable(page, view_config.title_property) => e.title = UntitledEvent
                /\ Unreadable(page, view_config.description_property) =>
                      e.description = NoText
                /\ Unreadable(page, view_config.location_property) => e.location = NoText

\* a page whose description has an element without plain text and whose
\* title reads "A" was made an event with that title and no description
C16_Witness ==
    /\ events.returned
    /\ \E e \in ReturnedEvents :
          /\ view_config.description_property = "Notes"
          /\ SourcePage(e).properties.Notes = ArrayProp("rich_text", <<BrokenRun>>)
          /\ e.title = Text(<<"A">>)
          /\ e.description = NoText

-----------------------------------------------------------------------------
(* C17: what each kind of property gives.                                  *)

\* the texts of the elements 1..n of an array, one after the other
RECURSIVE Concatenated(_, _)
Concatenated(items, n) ==
    IF n = 0 THEN <<>> ELSE Concatenated(items, n - 1) \o items[n].text
\* the same with ", " between two elements
RECURSIVE CommaSeparated(_, _)
CommaSeparated(items, n) ==
    IF n = 0 THEN <<>>
    ELSE IF n = 1 THEN items[1].text
    ELSE CommaSeparated(items, n - 1) \o <<",", " ">> \o items[n].text
DecimalDigitChars == <<"0", "1", "2", "3", "4", "5", "6", "7", "8", "9">>
\* the decimal string of a number below 100
TwoDigits(n) ==
    IF n < 10 THEN <<DecimalDigitChars[n + 1]>>
    ELSE <<DecimalDigitChars[(n \div 10) + 1], DecimalDigitChars[(n % 10) + 1]>>
MappedKinds == {"title", "rich_text", "multi_select", "select", "number", "checkbox"}
WellFormed(prop) ==
    /\ prop.type \in MappedKinds
    /\ \A i \in 1..Len(prop.items) : prop.items[i].has_text
    /\ prop.type = "checkbox" => prop.flag # <<>>
\* what the claim says a property of a mapped kind gives
ExpectedText(prop) ==
    CASE prop.type \in {"title", "rich_text"} ->
            IF Len(prop.items) = 0 THEN NoText
            ELSE Text(Concatenated(prop.items, Len(prop.items)))
      [] prop.type = "multi_select" ->
            IF Len(prop.items) = 0 THEN NoText
            ELSE Text(CommaSeparated(prop.items, Len(prop.items)))
      [] prop.type = "select" -> prop.value
      [] prop.type = "number" ->
            IF prop.num = <<>> THEN NoText ELSE Text(TwoDigits(prop.num[1]))
      [] prop.type = "checkbox" ->
            IF prop.flag[1] THEN Text(<<"Y", "e", "s">>) ELSE Text(<<"N", "o">>)

\* C17: a title, rich text, multi-select, select, number or checkbox
\* property gives what the claim says (the runs in order, the labels with
\* ", " between them, the label, the decimal string, "Yes" or "No", and
\* nothing for an empty or unset one): as the value of the extraction, for
\* each such property of the pages served, and as the title of the event
\* made from a page with such a title property, "Untitled Event" standing
\* in for nothing; labels A and B give "A, B"
C17_KindMapping ==
    /\ \A j \in 1..Len(results) :
       \A name \in {"Name", "Notes", "Where", "Link"} :
          LET prop == Lookup(results[j].properties, name)
          IN  WellFormed(prop) =>
                 _extract_property_text(results[j].properties, name, NoText)
                    = ExpectedText(prop)
    /\ events.returned =>
         \A e \in ReturnedEvents :
            LET prop == Lookup(SourcePage(e).properties, view_config.title_property)
            IN  WellFormed(prop) =>
                   e.title = IF ExpectedText(prop) = NoText THEN UntitledEvent
                             ELSE ExpectedText(prop)
    /\ \A e \in ReturnedEvents :
          Lookup(SourcePage(e).properties, view_config.title_property)
             = ArrayProp("multi_select", <<LabelA, LabelB>>)
          => e.title = Text(<<"A", ",", " ", "B">>)

\* an event made from a page whose title property is a multi-select with
\* the labels A and B
C17_Witness ==
    /\ events.returned
    /\ \E e \in ReturnedEvents :
          /\ view_config.title_property = "Name"
          /\ SourcePage(e).properties.Name = ArrayProp("multi_select", <<LabelA, LabelB>>)
          /\ e.title = Text(<<"A", ",", " ", "B">>)

-----------------------------------------------------------------------------
(* C19: one query at a time.                                               *)

\* the queries of the fetch that have no response yet
Outstanding == Len(queries) - Len(responses)

\* C19: a fetch has at most one query without a response, and has one
\* exactly while it awaits databases.query, so that a query is sent only
\* when every earlier one has its response; every query of the fetch names
\* the view's database, carries the filter of the first query and asks for
\* pages of 100
C19_OneQueryAtATime ==
    /\ Outstanding \in {0, 1}
    /\ Outstanding = 1 <=> pc = "await"
    /\ Outstanding = 1 <=> inflight # NoQuery
    /\ \A i \in 1..Len(queries) :
          /\ queries[i].database_id = view_config.database_id
          /\ queries[i].filter = queries[1].filter
          /\ queries[i].page_size = 100

\* the third query of a fetch is awaited, two responses having arrived; the
\* queries carry a filter
C19_Witness ==
    /\ pc = "await"
    /\ Len(queries) = 3
    /\ Len(responses) = 2
    /\ queries[3].filter.py = "dict"

-----------------------------------------------------------------------------
(* C20: the bounds of the window.                                          *)

\* the expressions a filter puts together
Conjuncts(f) ==
    IF f.py # "dict" THEN {}
    ELSE IF f.key = "and" THEN {f.and[i] : i \in 1..Len(f.and)}
    ELSE {f}
\* the days the call's filter bounds the date property with
StartBounds ==
    {c.value.iso : c \in {x \in Conjuncts(filters) :
                             x.property = view_config.date_property /\ x.op = "on_or_after"}}
EndBounds ==
    {c.value.iso : c \in {x \in Conjuncts(filters) :
                             x.property = view_config.date_property /\ x.op = "on_or_before"}}

\* C20: in a call of a server that started, the settings are not negative;
\* the filter has a start bound exactly when query_days_back is set and an
\* end bound exactly when query_days_forward is set; a setting of 0 gives
\* the bound now; and a start bound is not after an end bound
C20_WindowBounds ==
    InCall =>
      /\ view_config.query_days_back # NoInt => view_config.query_days_back[1] >= 0
      /\ view_config.query_days_forward # NoInt => view_config.query_days_forward[1] >= 0
      /\ StartBounds # {} <=> config.query_days_back # NoInt
      /\ EndBounds # {} <=> config.query_days_forward # NoInt
      /\ config.query_days_back = <<0>> => StartBounds = {now}
      /\ config.query_days_forward = <<0>> => EndBounds = {now}
      /\ \A s \in StartBounds : \A e \in EndBounds :
            s.date < e.date \/ (s.date = e.date /\ s.hour <= e.hour)

\* a call for a view with query_days_back: 0 and no query_days_forward: the
\* filter is the one comparison "on or after now"
C20_Witness ==
    /\ InCall
    /\ config.query_days_back = <<0>>
    /\ config.query_days_forward = <<>>
    /\ filters = Comparison("Date", "on_or_after", isoformat(now))

-----------------------------------------------------------------------------
(* C18: calls do not interfere.                                            *)

\* what a query carries for a filter
AsSent(f) == IF Truthy(f) THEN f ELSE [py |-> Absent]
\* the second request has made a call
SecondCalled == other.pc # "idle" \/ other.queries # <<>> \/ other.events.returned
\* the view of the second request as it was configured
ConfiguredView(o) == IF o.feed = "same" THEN config ELSE SecondView

\* C18: while two requests are served, and from one call to the next, the
\* view of each client, its extra filter included, stays what was
\* configured; the filter of each call, which all its queries carry, is the
\* filter a call alone would build from the configured view at its own
\* time; the records of each call are those of its own responses and its
\* events are made from its own records
C18_CallsIndependent ==
    /\ view_config = config
    /\ other.view_config = SecondView
    /\ InCall =>
          /\ filters = BuildFilters(config, now)
          /\ \A i \in 1..Len(queries) :
                /\ queries[i].filter = AsSent(BuildFilters(config, now))
                /\ queries[i].database_id = config.database_id
    /\ SecondCalled =>
          /\ other.filters = BuildFilters(ConfiguredView(other), other.now)
          /\ \A i \in 1..Len(other.queries) :
                /\ other.queries[i].filter = AsSent(other.filters)
                /\ other.queries[i].database_id = ConfiguredView(other).database_id
    /\ InCall => results = Concatenation(responses)
    /\ other.results = Concatenation(other.responses)
    /\ \A j \in 1..Len(events.list) :
          \E i \in 1..Len(results) : events.list[j].notion_page_id = results[i].id
    /\ \A j \in 1..Len(other.events.list) :
          \E i \in 1..Len(other.results) :
             other.events.list[j].notion_page_id = other.results[i].id

\* both requests are for the same feed and both await the provider, each
\* having sent the filter of the view's window and its list of two extra
\* expressions
C18_Witness ==
    /\ pc = "await"
    /\ other.pc = "await"
    /\ other.feed = "same"
    /\ config.filters = PyList(<<ExprA, ExprB>>)
    /\ config.query_days_back # NoInt
    /\ config.query_days_forward # NoInt
    /\ Len(queries[1].filter.and) = 4
    /\ other.queries[1].filter = queries[1].filter

-----------------------------------------------------------------------------
(* C21: the counts of a fetch.                                             *)

\* the records the responses of the call held
RECURSIVE RecordsServed(_)
RecordsServed(rs) ==
    IF rs = <<>> THEN 0 ELSE Len(Head(rs).results) + RecordsServed(Tail(rs))
\* the fetched records that are not among the events returned
SkippedRecords ==
    {j \in 1..Len(results) :
        \A i \in 1..Len(events.list) : events.list[i].notion_page_id # results[j].id}

\* C21: when get_calendar_events has returned, it has logged the number of
\* records fetched, which is the number the responses held, and the number
\* of events converted, which is the length of the list returned; the
\* second is not above the first and their difference is the number of
\* fetched records that are not among the events
C21_CountsReported ==
    events.returned =>
      /\ log.retrieved # <<>>
      /\ log.converted # <<>>
      /\ log.retrieved[1] = RecordsServed(responses)
      /\ log.converted[1] = Len(events.list)
      /\ log.converted[1] <= log.retrieved[1]
      /\ log.retrieved[1] - log.converted[1] = Cardinality(SkippedRecords)

\* a call that fetched three records, two of them without a date, and
\* returned one event: the log says 3 and 1
C21_Witness ==
    /\ events.returned
    /\ log = [retrieved |-> <<3>>, converted |-> <<1>>]
    /\ Cardinality({j \in 1..Len(results) : results[j].date_prop # "set"}) = 2

====
